---------------------------- MODULE Spec2Model ----------------------------
(***************************************************************************)
(* redux-orm: the Model class (src/src/Model.js) together with the         *)
(* collaborators it calls: the Session (mutation log, current state) and   *)
(* the Meta instance (branch algebra).  Session and Meta are not part of   *)
(* the source file; they are modelled from the specification.              *)
(***************************************************************************)
EXTENDS Integers, Sequences, FiniteSets, TLC

(***************************************************************************)
(* Bounds and input sets                                                   *)
(***************************************************************************)
MaxLog == 2
MaxFacades == 1
MaxFields == 2

ModelNames == {"Book", "Author"}
\* BookClub is a model class that extends Book
SubClasses == {"BookClub"}
Classes == ModelNames \cup SubClasses
Sessions == {"s1", "s2"}
Ids == {1, 2}
Values == {"a", "b"}
AttrNames == {"name", "tag"}

\* constants.js action types
CREATE == "CREATE"
UPDATE == "UPDATE"
DELETE == "DELETE"
ORDER == "ORDER"

\* values that are not Session instances: a plain object, null
NonSessions == {"plainObject", "null"}
Falsy == {"null", "undefined"}
ConnectError == "A model can only connect to a Session instance."

\* the value JavaScript yields for a missing property
Undefined == "undefined"

VARIABLES
    sessions,       \* Session objects: [state, mutations, open]
    _session,       \* Model._session, per model class
    facades,        \* Model instances: [cls, _fields, _fieldNames, getters, session]
    constructed,    \* history: the props each instance was constructed with
    metaThrows,     \* whether Meta.update raises on an undefined id array
    _meta,          \* Model._meta, the own property of each model class
    fields,         \* Model.fields, as each model class resolves it
    last            \* history: the last call and its outcome; again = it
                    \* repeats the call before it (getNextState only)

vars == <<sessions, _session, facades, constructed, metaThrows, _meta, fields, last>>

(***************************************************************************)
(* Values                                                                  *)
(***************************************************************************)
Ok(v) == [error |-> "none", value |-> v]
Raise(e) == [error |-> e]
Raised(r) == r.error # "none"

EmptyMap == [k \in {} |-> k]

\* Object.assign({}, a, b) / an object literal with a's keys then b's
Merge(a, b) ==
    [k \in (DOMAIN a) \cup (DOMAIN b) |-> IF k \in DOMAIN b THEN b[k] ELSE a[k]]

Without(f, ks) == [k \in (DOMAIN f) \ ks |-> f[k]]

SeqToSet(s) == {s[i] : i \in 1..Len(s)}

SetMax(S) == CHOOSE m \in S : \A x \in S : x <= m

(***************************************************************************)
(* Fields and names                                                        *)
(***************************************************************************)
\* a name as the sequence of its words, so that names can be concatenated
Words(name) ==
    CASE name = "Book" -> <<"Book">>
      [] name = "Author" -> <<"Author">>
      [] name = "BookClub" -> <<"Book", "Club">>
      [] name = "members" -> <<"Members">>
      [] name = "clubMembers" -> <<"Club", "Members">>
      [] name = "owner" -> <<"Owner">>
      [] name = "this" -> <<"This">>

\* utils: the name of the through model of a many-to-many field, and the
\* names of its two foreign keys
m2mName(declarationModelName, fieldName) ==
    Words(declarationModelName) \o Words(fieldName)
m2mFromFieldName(declarationModelName) ==
    <<"from">> \o Words(declarationModelName) \o <<"Id">>
m2mToFieldName(otherModelName) ==
    <<"to">> \o Words(otherModelName) \o <<"Id">>

\* field instances
Attribute == [kind |-> "Attribute", relatedModelName |-> Undefined, through |-> Undefined]
ForeignKey(toModelName) ==
    [kind |-> "ForeignKey", relatedModelName |-> toModelName, through |-> Undefined]
ManyToMany(toModelName, through) ==
    [kind |-> "ManyToMany", relatedModelName |-> toModelName, through |-> through]

(***************************************************************************)
(* Meta: the branch algebra                                                *)
(***************************************************************************)
IdAttribute == "id"

MetaGetDefaultState == [idArray |-> <<>>, itemsById |-> EmptyMap]

MetaNextId(branch) ==
    IF DOMAIN branch.itemsById = {} THEN 1 ELSE SetMax(DOMAIN branch.itemsById) + 1

MetaInsert(branch, payload) ==
    LET id == IF IdAttribute \in DOMAIN payload
              THEN payload[IdAttribute] ELSE MetaNextId(branch)
        record == Merge(payload, [id |-> id])
    IN  IF id \in DOMAIN branch.itemsById
        THEN Raise("DuplicateIdError")
        ELSE Ok([idArray |-> Append(branch.idArray, id),
                 itemsById |-> Merge(branch.itemsById, [k \in {id} |-> record])])

\* update with an id array and an updater object
MetaUpdate(branch, idArr, updater) ==
    Ok([idArray |-> branch.idArray,
        itemsById |->
            [k \in DOMAIN branch.itemsById |->
                IF k \in SeqToSet(idArr)
                THEN Merge(branch.itemsById[k], updater)
                ELSE branch.itemsById[k]]])

\* update called with idArr = undefined: the specification of Meta does not
\* say what happens; an implementation either raises when it walks the ids
\* or finds no id to update
MetaUpdateUndefined(branch, throws) ==
    IF throws THEN Raise("TypeError") ELSE Ok(branch)

MetaDelete(branch, idArr) ==
    Ok([idArray |-> SelectSeq(branch.idArray, LAMBDA i : i \notin SeqToSet(idArr)),
        itemsById |-> Without(branch.itemsById, SeqToSet(idArr))])

(***************************************************************************)
(* Session: the mutation log and the current state                         *)
(***************************************************************************)
\* session.getState(name): the branch of the root state, or undefined
SessionGetState(s, modelName) ==
    IF modelName \in DOMAIN sessions[s].state
    THEN [defined |-> TRUE, value |-> sessions[s].state[modelName]]
    ELSE [defined |-> FALSE]

SessionGetMutationsFor(s, modelName) ==
    SelectSeq(sessions[s].mutations, LAMBDA m : m.meta.name = modelName)

\* the outcome of session.addMutation(mutation): the error raised, if any,
\* and the sessions afterwards
SessionAddMutation(s, mutation) ==
    IF ~sessions[s].open
    THEN [error |-> "SessionClosedError", sessions |-> sessions]
    ELSE IF mutation.meta.name \notin ModelNames
    THEN [error |-> "InvalidMutationError", sessions |-> sessions]
    ELSE [error |-> "none",
          sessions |-> [sessions EXCEPT ![s].mutations = Append(@, mutation)]]

(***************************************************************************)
(* Model: static methods                                                   *)
(***************************************************************************)
\* the class a model class extends; Model is the base class
SuperClass(cls) == IF cls \in SubClasses THEN "Book" ELSE "Model"

\* getMetaOptions() as every model class defines it
getMetaOptions(cls) == [name |-> cls]

\* new Meta(options)
NewMeta(options) == [name |-> options.name, idAttribute |-> IdAttribute]

NoMeta == [own |-> FALSE]

\* this._meta: a static property is looked up on the class, then on the
\* classes it extends; the base class Model never holds one
RECURSIVE lookupMeta(_)
lookupMeta(cls) ==
    IF cls = "Model" THEN NoMeta
    ELSE IF _meta[cls].own THEN _meta[cls]
    ELSE lookupMeta(SuperClass(cls))

\* the _meta properties after cls.getMetaInstance()
metaAfterGet(cls) ==
    IF ~lookupMeta(cls).own
    THEN [_meta EXCEPT ![cls] = [own |-> TRUE, meta |-> NewMeta(getMetaOptions(cls))]]
    ELSE _meta

getMetaInstance(cls) ==
    LET found == lookupMeta(cls)
    IN  IF ~found.own THEN NewMeta(getMetaOptions(cls)) ELSE found.meta

getName(cls) == getMetaInstance(cls).name

getDefaultState(cls) == MetaGetDefaultState

\* Model.session
session(cls) == _session[cls]

\* Model.state
state(cls) == SessionGetState(session(cls), getName(cls))

\* !x: false for an object, true for null and undefined
JsNot(x) == IF x \in Falsy THEN "true" ELSE "false"

\* x instanceof Session
InstanceofSession(x) == x \in Sessions

\* Model.connect(session): the test reads (!session) instanceof Session
connect(cls, x) ==
    IF InstanceofSession(JsNot(x))
    THEN [error |-> ConnectError, _session |-> _session]
    ELSE [error |-> "none", _session |-> [_session EXCEPT ![cls] = x]]

\* variant: a record of an unknown type resets the accumulated state
reduceStepResetting(acc, action, throws) ==
    IF Raised(acc) THEN acc
    ELSE CASE action.type = CREATE -> MetaInsert(acc.value, action.payload)
           [] action.type = UPDATE ->
                IF "idArr" \in DOMAIN action.payload
                THEN MetaUpdate(acc.value, action.payload.idArr, action.payload.updater)
                ELSE MetaUpdateUndefined(acc.value, throws)
           [] action.type = DELETE -> MetaDelete(acc.value, action.payload)
           [] OTHER -> Ok(MetaGetDefaultState)

\* the reducer callback of getNextState; a raised error ends the fold
reduceStep(acc, action, throws) ==
    IF Raised(acc) THEN acc
    ELSE CASE action.type = CREATE -> MetaInsert(acc.value, action.payload)
           [] action.type = UPDATE ->
                IF "idArr" \in DOMAIN action.payload
                THEN MetaUpdate(acc.value, action.payload.idArr, action.payload.updater)
                ELSE MetaUpdateUndefined(acc.value, throws)
           [] action.type = DELETE -> MetaDelete(acc.value, action.payload)
           [] OTHER -> acc

\* variant: the records applied last to first
RECURSIVE reduceRight(_, _, _)
reduceRight(mutations, acc, throws) ==
    IF Len(mutations) = 0 THEN acc
    ELSE reduceRight(SubSeq(mutations, 1, Len(mutations) - 1),
                     reduceStep(acc, mutations[Len(mutations)], throws), throws)

RECURSIVE reduce(_, _, _)
reduce(mutations, acc, throws) ==
    IF Len(mutations) = 0 THEN acc
    ELSE reduce(Tail(mutations), reduceStep(acc, Head(mutations), throws), throws)

\* variant: every record of the log is folded, whatever entity it targets
getNextStateWholeLog(cls) ==
    IF ~state(cls).defined
    THEN Ok(getDefaultState(cls))
    ELSE reduce(sessions[session(cls)].mutations, Ok(state(cls).value), metaThrows)

getNextState(cls) ==
    IF ~state(cls).defined
    THEN Ok(getDefaultState(cls))
    ELSE reduce(SessionGetMutationsFor(session(cls), cls), Ok(state(cls).value), metaThrows)

getThroughModelClass(cls) == "Model"

\* the class ThroughModel built for one many-to-many field
ThroughModel(cls, field) ==
    LET thisModelName == getName(cls)
        relatedModelName == IF field.instance.relatedModelName = "this"
                            THEN thisModelName
                            ELSE field.instance.relatedModelName
        fromFieldName == m2mFromFieldName(thisModelName)
        toFieldName == m2mToFieldName(relatedModelName)
    IN  [extends |-> getThroughModelClass(cls),
         fields |-> Merge([k \in {fromFieldName} |-> ForeignKey(thisModelName)],
                          [k \in {toFieldName} |-> ForeignKey(relatedModelName)]),
         name |-> m2mName(thisModelName, field.name)]

\* forOwn(fields, ...) of getManyToManyModels, over the fields in the order
\* they are declared
RECURSIVE throughModels(_, _)
throughModels(cls, fs) ==
    IF Len(fs) = 0 THEN <<>>
    ELSE (IF Head(fs).instance.kind = "ManyToMany"
          THEN <<ThroughModel(cls, Head(fs))>> ELSE <<>>)
            \o throughModels(cls, Tail(fs))

getManyToManyModels(cls) == throughModels(cls, fields[cls])

\* variant: a meta the caller supplied is kept
addMutationKeepingMeta(cls, mutation) ==
    SessionAddMutation(session(cls), Merge([meta |-> [name |-> getName(cls)]], mutation))

\* Model.addMutation(mutation)
addMutation(cls, mutation) ==
    SessionAddMutation(session(cls), Merge(mutation, [meta |-> [name |-> getName(cls)]]))

(***************************************************************************)
(* Model: instances                                                        *)
(***************************************************************************)
getClass(f) == f.cls

getId(f) == f._fields[getMetaInstance(getClass(f)).idAttribute]

toPlain(f) == [k \in f._fieldNames |-> f._fields[k]]

\* f.<fieldName>: the getter installed by _initFields
readField(f, fieldName) == f.getters[fieldName]

\* this.session on an instance: `session` is a static getter of the class,
\* so an instance has it only as a prop of that name
instanceSession(f) ==
    IF "session" \in DOMAIN f._fields THEN f._fields["session"] ELSE Undefined

\* variant: two instances are equal when their fields are
equalsBySnapshot(f, otherModel) ==
    getClass(f) = getClass(otherModel) /\ toPlain(f) = toPlain(otherModel)

\* f.equals(otherModel)
equals(f, otherModel) ==
    getClass(f) = getClass(otherModel) /\ getId(f) = getId(otherModel)

\* variant: one record appended per field of mergeObj
updatePerField(f, mergeObj) ==
    LET s == session(getClass(f))
        n == Cardinality(DOMAIN mergeObj)
        ks == CHOOSE q \in [1..n -> DOMAIN mergeObj] : \A i, j \in 1..n : q[i] = q[j] => i = j
        rec(k) == [type |-> UPDATE,
                   payload |-> [idArr |-> <<getId(f)>>, updater |-> [x \in {k} |-> mergeObj[k]]],
                   meta |-> [name |-> getName(getClass(f))]]
    IN  IF ~sessions[s].open
        THEN [error |-> "SessionClosedError", sessions |-> sessions]
        ELSE [error |-> "none",
              sessions |-> [sessions EXCEPT ![s].mutations = @ \o [i \in 1..n |-> rec(ks[i])]]]

\* f.update(mergeObj)
update(f, mergeObj) ==
    addMutation(getClass(f),
                [type |-> UPDATE,
                 payload |-> [idArr |-> <<getId(f)>>, updater |-> mergeObj],
                 meta |-> [name |-> getName(getClass(f))]])

\* the mutation the setter of a plain attribute hands to the session
setterMutation(f, fieldName, value) ==
    [type |-> UPDATE,
     payload |-> Merge([k \in {getMetaInstance(getClass(f)).idAttribute} |-> getId(f)],
                       [k \in {fieldName} |-> value]),
     meta |-> [name |-> getName(getClass(f))]]

(***************************************************************************)
(* Initial states                                                          *)
(***************************************************************************)
Row(i) == [id |-> i, name |-> "a"]

InitBranches ==
    { [idArray |-> <<1>>, itemsById |-> [k \in {1} |-> Row(k)]],
      [idArray |-> <<1, 2>>, itemsById |-> [k \in {1, 2} |-> Row(k)]] }

\* the root state holds no branch yet, a branch for Book only, or a branch
\* for Book and for Author
RootStates ==
    {EmptyMap}
        \cup {[n \in {"Book"} |-> b] : b \in InitBranches}
        \cup {[n \in ModelNames |-> [idArray |-> <<1>>, itemsById |-> [k \in {1} |-> Row(k)]]]}

FacadeClasses == {"Book"}

FacadeProps == {Row(1)}
CreatePayloads == {Row(i) : i \in Ids}
MergeObjs == {[name |-> "b", tag |-> "b"]}
\* a Create payload that leaves the id to the branch
NoIdPayloads == {[name |-> "b"]}
OrderPayload == [orderBy |-> "name"]

Void == Ok(Undefined)
Outcome(r) == IF r.error = "none" THEN Void ELSE Raise(r.error)

CanAppend(s) == ~sessions[s].open \/ Len(sessions[s].mutations) < MaxLog

\* the schema has asked every registered model class for its name
BuiltMeta ==
    [cls \in Classes |->
        IF cls \in ModelNames
        THEN [own |-> TRUE, meta |-> NewMeta(getMetaOptions(cls))]
        ELSE NoMeta]

Init ==
    /\ \E st \in RootStates :
          sessions = [s \in Sessions |-> [state |-> st, mutations |-> <<>>, open |-> TRUE]]
    /\ _session = [cls \in ModelNames |-> "s1"]
    /\ facades = <<>>
    /\ constructed = <<>>
    /\ metaThrows \in BOOLEAN
    /\ _meta = BuiltMeta
    /\ fields = [cls \in Classes |-> EmptyMap]
    /\ last = [op |-> "init", cls |-> "", fid |-> 0, ret |-> Void, again |-> FALSE]

(***************************************************************************)
(* Operations                                                              *)
(***************************************************************************)
\* new ModelClass(props)
Construct(cls, props) ==
    /\ Len(facades) < MaxFacades
    /\ facades' = Append(facades,
                         [cls |-> cls, _fields |-> props, _fieldNames |-> DOMAIN props,
                          getters |-> props, session |-> session(cls)])
    /\ constructed' = Append(constructed, props)
    /\ last' = [op |-> "new", cls |-> cls, fid |-> Len(facades) + 1, ret |-> Void, again |-> FALSE]
    /\ UNCHANGED <<sessions, _session, metaThrows, _meta, fields>>

\* variant: the setter also stores the value in the instance
AssignPropertyStoring(fid, fieldName, value) ==
    LET f == facades[fid]
        r == SessionAddMutation(f.session, setterMutation(f, fieldName, value))
    IN  /\ CanAppend(f.session)
        /\ sessions' = r.sessions
        /\ facades' = [facades EXCEPT ![fid]._fields[fieldName] = value,
                                      ![fid].getters[fieldName] = value]
        /\ last' = [op |-> "assign", cls |-> getClass(f), fid |-> fid, ret |-> Outcome(r), again |-> FALSE]
        /\ UNCHANGED <<_session, constructed, metaThrows, _meta, fields>>

\* instance.<fieldName> = value
AssignProperty(fid, fieldName, value) ==
    LET f == facades[fid]
        r == SessionAddMutation(f.session, setterMutation(f, fieldName, value))
    IN  /\ CanAppend(f.session)
        /\ sessions' = r.sessions
        /\ last' = [op |-> "assign", cls |-> getClass(f), fid |-> fid, ret |-> Outcome(r), again |-> FALSE]
        /\ UNCHANGED <<_session, facades, constructed, metaThrows, _meta, fields>>

\* instance.set(propertyName, value)
Set(fid, propertyName, value) ==
    LET f == facades[fid]
        r == update(f, [k \in {propertyName} |-> value])
    IN  /\ CanAppend(session(getClass(f)))
        /\ sessions' = r.sessions
        /\ last' = [op |-> "set", cls |-> getClass(f), fid |-> fid, ret |-> Outcome(r), again |-> FALSE]
        /\ UNCHANGED <<_session, facades, constructed, metaThrows, _meta, fields>>

\* instance.update(mergeObj)
Update(fid, mergeObj) ==
    LET f == facades[fid]
        r == update(f, mergeObj)
    IN  /\ CanAppend(session(getClass(f)))
        /\ sessions' = r.sessions
        /\ last' = [op |-> "update", cls |-> getClass(f), fid |-> fid, ret |-> Outcome(r), again |-> FALSE]
        /\ UNCHANGED <<_session, facades, constructed, metaThrows, _meta, fields>>

\* instance.delete()
Delete(fid) ==
    LET f == facades[fid]
        s == instanceSession(f)
        r == IF s \in Sessions
             THEN SessionAddMutation(s, [type |-> DELETE, payload |-> <<getId(f)>>,
                                         meta |-> [name |-> getName(getClass(f))]])
             ELSE [error |-> "TypeError", sessions |-> sessions]
    IN  /\ sessions' = r.sessions
        /\ last' = [op |-> "delete", cls |-> getClass(f), fid |-> fid, ret |-> Outcome(r), again |-> FALSE]
        /\ UNCHANGED <<_session, facades, constructed, metaThrows, _meta, fields>>

\* ModelClass.addMutation({type: CREATE, payload})
\* the caller has put a meta of its own on the mutation: another name
AddCreate(cls, payload) ==
    \E callerName \in ModelNames \ {cls} :
    LET r == addMutation(cls, [type |-> CREATE, payload |-> payload,
                               meta |-> [name |-> callerName]])
    IN  /\ CanAppend(session(cls))
        /\ sessions' = r.sessions
        /\ last' = [op |-> "addCreate", cls |-> cls, fid |-> 0, ret |-> Outcome(r), again |-> FALSE]
        /\ UNCHANGED <<_session, facades, constructed, metaThrows, _meta, fields>>

\* ModelClass.addMutation({type: DELETE, payload: [id]})
AddDelete(cls, id) ==
    \E callerName \in ModelNames \ {cls} :
    LET r == addMutation(cls, [type |-> DELETE, payload |-> <<id>>,
                               meta |-> [name |-> callerName]])
    IN  /\ CanAppend(session(cls))
        /\ sessions' = r.sessions
        /\ last' = [op |-> "addDelete", cls |-> cls, fid |-> 0, ret |-> Outcome(r), again |-> FALSE]
        /\ UNCHANGED <<_session, facades, constructed, metaThrows, _meta, fields>>

\* ModelClass.addMutation({type: ORDER, payload})
AddOrder(cls) ==
    LET r == addMutation(cls, [type |-> ORDER, payload |-> OrderPayload])
    IN  /\ CanAppend(session(cls))
        /\ sessions' = r.sessions
        /\ last' = [op |-> "addOrder", cls |-> cls, fid |-> 0, ret |-> Outcome(r), again |-> FALSE]
        /\ UNCHANGED <<_session, facades, constructed, metaThrows, _meta, fields>>

\* variant: the fold drains the records it applied from the log
GetNextStateDraining(cls) ==
    /\ last' = [op |-> "getNextState", cls |-> cls, fid |-> 0, ret |-> getNextState(cls),
                again |-> (last.op = "getNextState" /\ last.cls = cls)]
    /\ sessions' = [sessions EXCEPT ![session(cls)].mutations =
                        SelectSeq(@, LAMBDA m : m.meta.name # cls)]
    /\ UNCHANGED <<_session, facades, constructed, metaThrows, _meta, fields>>

\* ModelClass.getNextState()
GetNextState(cls) ==
    /\ last' = [op |-> "getNextState", cls |-> cls, fid |-> 0, ret |-> getNextState(cls),
                again |-> (last.op = "getNextState" /\ last.cls = cls)]
    /\ UNCHANGED <<sessions, _session, facades, constructed, metaThrows, _meta, fields>>

\* the hosting container has consumed the next states: the session closes
Finalize(s) ==
    /\ sessions[s].open
    /\ sessions' = [sessions EXCEPT ![s].open = FALSE]
    /\ last' = [op |-> "finalize", cls |-> "", fid |-> 0, ret |-> Void, again |-> FALSE]
    /\ UNCHANGED <<_session, facades, constructed, metaThrows, _meta, fields>>

FacadeIds == 1..Len(facades)

Next ==
    \/ \E cls \in FacadeClasses, props \in FacadeProps : Construct(cls, props)
    \* assignment to a plain attribute among the props
    \/ \E fid \in FacadeIds, fieldName \in AttrNames, value \in Values :
          /\ fieldName \in DOMAIN facades[fid]._fields
          /\ AssignProperty(fid, fieldName, value)
    \/ \E fid \in FacadeIds, propertyName \in AttrNames, value \in Values :
          Set(fid, propertyName, value)
    \/ \E fid \in FacadeIds, mergeObj \in MergeObjs : Update(fid, mergeObj)
    \/ \E fid \in FacadeIds : Delete(fid)
    \/ \E cls \in ModelNames, payload \in CreatePayloads : AddCreate(cls, payload)
    \/ \E cls \in ModelNames, id \in Ids : AddDelete(cls, id)
    \/ \E cls \in ModelNames : GetNextState(cls)

\* one cycle of a session that stays open
Spec == Init /\ [][Next]_vars

\* a cycle of records handed to the static addMutation: Creates with and
\* without an id, Deletes, and records of a type the fold does not know
NextRecords ==
    \/ \E cls \in ModelNames, payload \in CreatePayloads \cup NoIdPayloads :
          AddCreate(cls, payload)
    \/ \E cls \in ModelNames, id \in Ids : AddDelete(cls, id)
    \/ \E cls \in ModelNames : AddOrder(cls)
    \/ \E cls \in ModelNames : GetNextState(cls)

SpecRecords == Init /\ [][NextRecords]_vars

\* instances as new ModelClass(props) builds them
NewInstance(cls, props) ==
    [cls |-> cls, _fields |-> props, _fieldNames |-> DOMAIN props,
     getters |-> props, session |-> session(cls)]

InstanceProps == {[id |-> i, name |-> v] : i \in Ids, v \in Values}

\* two instances exist, of any class and with any props
InitEquals ==
    /\ \E st \in RootStates :
          sessions = [s \in Sessions |-> [state |-> st, mutations |-> <<>>, open |-> TRUE]]
    /\ _session = [cls \in ModelNames |-> "s1"]
    /\ \E c1 \in ModelNames, c2 \in ModelNames, p1 \in InstanceProps, p2 \in InstanceProps :
          /\ facades = <<NewInstance(c1, p1), NewInstance(c2, p2)>>
          /\ constructed = <<p1, p2>>
    /\ metaThrows = FALSE
    /\ _meta = BuiltMeta
    /\ fields = [cls \in Classes |-> EmptyMap]
    /\ last = [op |-> "init", cls |-> "", fid |-> 0, ret |-> Void, again |-> FALSE]

\* instance.equals(otherModel)
Equals(fid, other) ==
    /\ last' = [op |-> "equals", cls |-> getClass(facades[fid]), fid |-> fid,
                ret |-> Ok([other |-> other, equal |-> equals(facades[fid], facades[other])]),
                again |-> FALSE]
    /\ UNCHANGED <<sessions, _session, facades, constructed, metaThrows, _meta, fields>>

NextEquals == \E fid \in FacadeIds, other \in FacadeIds : Equals(fid, other)

SpecEquals == InitEquals /\ [][NextEquals]_vars

FieldNames == {"members", "clubMembers", "owner"}
FieldInstances ==
    {Attribute, ForeignKey("Author"), ManyToMany("Author", Undefined),
     ManyToMany("this", Undefined), ManyToMany("Author", "Membership")}
Fields == [name : FieldNames, instance : FieldInstances]

\* the declarations of a model class: up to n fields of different names
FieldLists(n) ==
    {fs \in UNION {[1..k -> Fields] : k \in 0..n} :
        \A i, j \in 1..Len(fs) : fs[i].name = fs[j].name => i = j}

\* model classes with their static fields declared; no instance exists and
\* no class has been asked for its Meta or its name
InitSchema ==
    /\ sessions = [s \in Sessions |-> [state |-> EmptyMap, mutations |-> <<>>, open |-> TRUE]]
    /\ _session = [cls \in ModelNames |-> "s1"]
    /\ facades = <<>>
    /\ constructed = <<>>
    /\ metaThrows = FALSE
    /\ _meta = [cls \in Classes |-> NoMeta]
    /\ \E fb \in FieldLists(MaxFields), fc \in FieldLists(1) :
          fields = [cls \in Classes |->
                       IF cls = "Book" THEN fb ELSE IF cls = "BookClub" THEN fc ELSE <<>>]
    /\ last = [op |-> "init", cls |-> "", fid |-> 0, ret |-> Void, again |-> FALSE]

\* ModelClass.getManyToManyModels(): this.getName() builds the Meta of the
\* class when the class reads none
GetManyToManyModels(cls) ==
    /\ _meta' = metaAfterGet(cls)
    /\ last' = [op |-> "getManyToManyModels", cls |-> cls, fid |-> 0,
                ret |-> Ok(getManyToManyModels(cls)), again |-> FALSE]
    /\ UNCHANGED <<sessions, _session, facades, constructed, metaThrows, fields>>

NextSchema == \E cls \in Classes : GetManyToManyModels(cls)

SpecSchema == InitSchema /\ [][NextSchema]_vars

\* ModelClass.connect(x)
Connect(cls, x) ==
    LET r == connect(cls, x)
    IN  /\ _session' = r._session
        /\ last' = [op |-> "connect", cls |-> cls, fid |-> 0, ret |-> Outcome(r), again |-> FALSE]
        /\ UNCHANGED <<sessions, facades, constructed, metaThrows, _meta, fields>>

\* model classes are connected, to sessions and to other values
NextConnect == \E cls \in ModelNames, x \in Sessions \cup NonSessions : Connect(cls, x)

SpecConnect == Init /\ [][NextConnect]_vars

\* a facade written to across two cycles: its class is connected to the
\* session of the next cycle while the facade lives on
NextCycle ==
    \/ \E cls \in FacadeClasses, props \in FacadeProps : Construct(cls, props)
    \/ \E fid \in FacadeIds : AssignProperty(fid, "name", "b")
    \/ \E fid \in FacadeIds : Set(fid, "name", "b")
    \/ \E fid \in FacadeIds, mergeObj \in MergeObjs : Update(fid, mergeObj)
    \/ \E cls \in FacadeClasses, s \in Sessions : Connect(cls, s)

SpecCycle == Init /\ [][NextCycle]_vars

\* no model class has been asked for its Meta yet
InitMeta ==
    /\ \E st \in RootStates :
          sessions = [s \in Sessions |-> [state |-> st, mutations |-> <<>>, open |-> TRUE]]
    /\ _session = [cls \in ModelNames |-> "s1"]
    /\ facades = <<>>
    /\ constructed = <<>>
    /\ metaThrows \in BOOLEAN
    /\ _meta = [cls \in Classes |-> NoMeta]
    /\ fields = [cls \in Classes |-> EmptyMap]
    /\ last = [op |-> "init", cls |-> "", fid |-> 0, ret |-> Void, again |-> FALSE]

\* ModelClass.getMetaInstance()
GetMetaInstance(cls) ==
    /\ _meta' = metaAfterGet(cls)
    /\ last' = [op |-> "getMetaInstance", cls |-> cls, fid |-> 0,
                ret |-> Ok(getMetaInstance(cls)),
                again |-> (last.op = "getMetaInstance" /\ last.cls = cls)]
    /\ UNCHANGED <<sessions, _session, facades, constructed, metaThrows, fields>>

\* ModelClass.getName()
GetName(cls) ==
    /\ _meta' = metaAfterGet(cls)
    /\ last' = [op |-> "getName", cls |-> cls, fid |-> 0, ret |-> Ok(getName(cls)),
                again |-> FALSE]
    /\ UNCHANGED <<sessions, _session, facades, constructed, metaThrows, fields>>

NextMeta ==
    \/ \E cls \in Classes : GetMetaInstance(cls)
    \/ \E cls \in Classes : GetName(cls)

SpecMeta == InitMeta /\ [][NextMeta]_vars

\* the cycle together with its end: the session is finalized
NextLifecycle ==
    \/ Next
    \/ \E s \in Sessions : Finalize(s)

SpecLifecycle == Init /\ [][NextLifecycle]_vars

(***************************************************************************)
(* Properties                                                              *)
(***************************************************************************)
Log(s) == sessions[s].mutations
StateDefined(cls) == state(cls).defined
MutationsOf(cls) == SessionGetMutationsFor(session(cls), cls)
IsWellFormedUpdate(m) == m.type = UPDATE /\ "idArr" \in DOMAIN m.payload

\* one record applied as the specification's getNextState prescribes
ApplyRecord(acc, m) ==
    IF Raised(acc) THEN acc
    ELSE IF m.type = CREATE THEN MetaInsert(acc.value, m.payload)
    ELSE IF m.type = UPDATE
         THEN IF "idArr" \in DOMAIN m.payload
              THEN MetaUpdate(acc.value, m.payload.idArr, m.payload.updater)
              ELSE MetaUpdateUndefined(acc.value, metaThrows)
    ELSE IF m.type = DELETE THEN MetaDelete(acc.value, m.payload)
    ELSE acc

\* the records of M applied one after the other, first to last, starting at S
LeftFold(S, M) ==
    LET F[n \in 0..Len(M)] == IF n = 0 THEN Ok(S) ELSE ApplyRecord(F[n - 1], M[n])
    IN  F[Len(M)]

\* C1: when the entity's current state is defined, getNextState returns the
\* left-to-right fold of the entity's mutation subsequence over that state:
\* every record applied once, in append order.
C1_NextStateIsLeftFold ==
    (last.op = "getNextState" /\ StateDefined(last.cls)) =>
        last.ret = LeftFold(state(last.cls).value, MutationsOf(last.cls))

\* two updates of the same field of the same row: the later one wins
C1_Witness ==
    /\ last.op = "getNextState"
    /\ StateDefined(last.cls)
    /\ Len(MutationsOf(last.cls)) = 2
    /\ \A i \in 1..2 : IsWellFormedUpdate(MutationsOf(last.cls)[i])
    /\ MutationsOf(last.cls)[1].payload.updater = [name |-> "b", tag |-> "b"]
    /\ MutationsOf(last.cls)[2].payload.updater = [name |-> "a"]
    /\ ~Raised(last.ret)
    /\ 1 \in DOMAIN last.ret.value.itemsById
    /\ last.ret.value.itemsById[1] = [id |-> 1, name |-> "a", tag |-> "b"]

\* C2: when the entity has no current state, getNextState returns the default
\* branch with every Create recorded for the entity inserted.
C2_UndefinedStateFoldsCreates ==
    (last.op = "getNextState" /\ ~StateDefined(last.cls)) =>
        /\ ~Raised(last.ret)
        /\ \A i \in 1..Len(MutationsOf(last.cls)) :
              LET m == MutationsOf(last.cls)[i]
              IN  m.type = CREATE =>
                    /\ m.payload.id \in SeqToSet(last.ret.value.idArray)
                    /\ m.payload.id \in DOMAIN last.ret.value.itemsById

\* C3: delete() on an instance with id i appends exactly one Delete record
\* with id selector [i] and the instance's model name, and does not raise.
C3_DeleteAppendsOneRecord ==
    [][\A fid \in FacadeIds :
          Delete(fid) =>
             LET f == facades[fid]
                 s == session(getClass(f))
             IN  /\ last'.ret = Void
                 /\ Len(sessions'[s].mutations) = Len(Log(s)) + 1
                 /\ sessions'[s].mutations[Len(Log(s)) + 1].type = DELETE
                 /\ sessions'[s].mutations[Len(Log(s)) + 1].payload = <<getId(f)>>
                 /\ sessions'[s].mutations[Len(Log(s)) + 1].meta.name = getName(getClass(f))
      ]_vars

\* the Update record the specification's fold reads: id selector and updater
UpdateRecord(f, updater) ==
    [type |-> UPDATE,
     payload |-> [idArr |-> <<getId(f)>>, updater |-> updater],
     meta |-> [name |-> getName(getClass(f))]]

\* the step appended exactly the record rec to the log of session s
AppendedExactly(s, rec) ==
    /\ Len(sessions'[s].mutations) = Len(Log(s)) + 1
    /\ sessions' = [sessions EXCEPT ![s].mutations = Append(@, rec)]

\* C4: assigning v to the plain attribute fieldName of a persisted row i
\* appends an Update addressed by [i] with updater {fieldName: v}, so that
\* the next fold yields a row i with fieldName = v.
C4_AssignIsVisibleAfterFold ==
    [][\A fid \in FacadeIds, fieldName \in AttrNames, value \in Values :
          LET f == facades[fid]
              cls == getClass(f)
          IN  ( /\ fieldName \in DOMAIN f._fields
                /\ last'.op = "assign"
                /\ AssignProperty(fid, fieldName, value)
                /\ StateDefined(cls)
                /\ ~Raised(getNextState(cls))
                /\ getId(f) \in DOMAIN getNextState(cls).value.itemsById )
              =>
              ( /\ AppendedExactly(f.session, UpdateRecord(f, [k \in {fieldName} |-> value]))
                /\ ~Raised(getNextState(cls)')
                /\ getNextState(cls)'.value.itemsById[getId(f)][fieldName] = value )
      ]_vars

\* C5: set(field, value) and update(partialRecord) each append exactly one
\* Update record, with id selector [i], the updater {field: value} or the
\* whole partialRecord, and the instance's model name.
C5_SetAndUpdateAppendOneUpdate ==
    [][\A fid \in FacadeIds :
          LET f == facades[fid]
              s == session(getClass(f))
          IN  /\ \A propertyName \in AttrNames, value \in Values :
                    (last'.op = "set" /\ Set(fid, propertyName, value) /\ sessions[s].open) =>
                        /\ last'.ret = Void
                        /\ AppendedExactly(s, UpdateRecord(f, [k \in {propertyName} |-> value]))
              /\ \A mergeObj \in MergeObjs :
                    (last'.op = "update" /\ Update(fid, mergeObj) /\ sessions[s].open) =>
                        /\ last'.ret = Void
                        /\ AppendedExactly(s, UpdateRecord(f, mergeObj))
      ]_vars

\* a bulk update of two fields has been recorded as the single last record
C5_Witness ==
    /\ last.op = "update"
    /\ last.ret = Void
    /\ LET log == Log(session(last.cls))
       IN  /\ Len(log) = 2
           /\ IsWellFormedUpdate(log[2])
           /\ log[2].payload.updater = [name |-> "b", tag |-> "b"]
           /\ log[2].payload.idArr = <<1>>

\* C6: what an instance shows (its attribute getters, getId(), toPlain()) is
\* what it was constructed with, whatever it has written since and however
\* often the next state has been computed.
C6_FacadeIsPointInTimeView ==
    \A fid \in FacadeIds :
        LET f == facades[fid]
            props == constructed[fid]
        IN  /\ DOMAIN f.getters = DOMAIN props
            /\ \A k \in DOMAIN props : readField(f, k) = props[k]
            /\ getId(f) = props[IdAttribute]
            /\ toPlain(f) = props

\* an instance has assigned and updated its name and the next state has
\* been computed: the instance still reads the name it was constructed with
C6_Witness ==
    /\ last.op = "getNextState"
    /\ Len(facades) = 1
    /\ last.cls = getClass(facades[1])
    /\ LET log == Log(session(last.cls))
       IN  /\ Len(log) = 2
           /\ log[1].type = UPDATE /\ ~IsWellFormedUpdate(log[1])
           /\ log[1].payload.name = "b"
           /\ IsWellFormedUpdate(log[2])
           /\ log[2].payload.updater = [name |-> "b"]
    /\ StateDefined(last.cls)
    /\ ~Raised(last.ret)
    /\ last.ret.value.itemsById[1].name = "b"
    /\ readField(facades[1], "name") = "a"

\* C7: getNextState never raises on a log of accepted mutations (a Create
\* of an id already present aside, which insert reports), and an Update or
\* Delete against an absent id leaves the branch unchanged.
C7_FoldNeverRaises ==
    last.op = "getNextState" =>
        /\ last.ret.error \in {"none", "DuplicateIdError"}
        /\ StateDefined(last.cls) =>
             LET M == MutationsOf(last.cls)
                 F[n \in 0..Len(M)] ==
                     IF n = 0 THEN Ok(state(last.cls).value) ELSE ApplyRecord(F[n - 1], M[n])
             IN  \A n \in 1..Len(M) :
                    ( /\ ~Raised(F[n - 1])
                      /\ \/ IsWellFormedUpdate(M[n])
                            /\ SeqToSet(M[n].payload.idArr) \cap DOMAIN F[n - 1].value.itemsById = {}
                         \/ M[n].type = DELETE
                            /\ SeqToSet(M[n].payload) \cap DOMAIN F[n - 1].value.itemsById = {} )
                    => F[n] = F[n - 1]

\* C8: getNextState leaves the session's state and log as they are, and
\* called again with nothing appended in between returns an equal branch.
C8_FoldIsRepeatable ==
    [][\A cls \in ModelNames :
          (last'.op = "getNextState" /\ GetNextState(cls)) =>
             /\ sessions' = sessions
             /\ (last.op = "getNextState" /\ last.cls = cls) => last'.ret = last.ret
      ]_vars

\* getNextState called twice in a row on a log with records for the entity
C8_Witness ==
    /\ last.op = "getNextState"
    /\ last.again
    /\ StateDefined(last.cls)
    /\ Len(MutationsOf(last.cls)) = 2
    /\ ~Raised(last.ret)
    /\ last.ret.value # state(last.cls).value

\* the records of the log that target the entity, in log order
OwnIndexes(log, name) == {i \in 1..Len(log) : log[i].meta.name = name}
RECURSIVE OwnRecords(_, _)
OwnRecords(log, name) ==
    IF OwnIndexes(log, name) = {} THEN <<>>
    ELSE LET i == SetMax(OwnIndexes(log, name))
         IN  Append(OwnRecords(SubSeq(log, 1, i - 1), name), log[i])

\* C9: the next state of an entity is the fold of its own records, in their
\* log order, over its current state; a record appended for another entity
\* does not change it.
C9_OtherEntitiesDoNotInterfere ==
    [][\A cls \in ModelNames :
          LET log == Log(session(cls))
              log2 == sessions'[session(cls)].mutations
          IN  /\ StateDefined(cls) =>
                    getNextState(cls) = LeftFold(state(cls).value, OwnRecords(log, cls))
              /\ ( /\ Len(log2) = Len(log) + 1
                   /\ log2[Len(log2)].meta.name # cls )
                 => getNextState(cls)' = getNextState(cls)
      ]_vars

\* Book's next state computed from a log that also holds a record of Author
C9_Witness ==
    /\ last.op = "getNextState"
    /\ last.cls = "Book"
    /\ StateDefined("Book")
    /\ LET log == Log(session("Book"))
       IN  /\ Len(log) = 2
           /\ log[1].meta.name = "Author" /\ log[1].type = CREATE
           /\ log[1].payload.id = 2
           /\ log[2].meta.name = "Book" /\ log[2].type = DELETE
    /\ ~Raised(last.ret)
    /\ 2 \notin DOMAIN last.ret.value.itemsById

\* C10: a write issued against a finalized session fails with
\* SessionClosedError and leaves the log unchanged; a finalized session
\* never opens again.
C10_FinalizedSessionRejectsWrites ==
    [][/\ \A s \in Sessions : ~sessions[s].open => ~sessions'[s].open
       /\ \A fid \in FacadeIds :
             LET f == facades[fid]
                 closed == ~sessions[session(getClass(f))].open
                 rejected == last'.ret = Raise("SessionClosedError") /\ sessions' = sessions
             IN  /\ (closed /\ last'.op = "delete" /\ Delete(fid)) => rejected
                 /\ \A propertyName \in AttrNames, value \in Values :
                       /\ (closed /\ last'.op = "set" /\ Set(fid, propertyName, value))
                             => rejected
                       /\ ( /\ ~sessions[f.session].open
                            /\ last'.op = "assign"
                            /\ AssignProperty(fid, propertyName, value) ) => rejected
                 /\ \A mergeObj \in MergeObjs :
                       (closed /\ last'.op = "update" /\ Update(fid, mergeObj)) => rejected
       /\ \A cls \in ModelNames :
             LET closed == ~sessions[session(cls)].open
                 rejected == last'.ret = Raise("SessionClosedError") /\ sessions' = sessions
             IN  /\ \A payload \in CreatePayloads :
                       (closed /\ last'.op = "addCreate" /\ AddCreate(cls, payload)) => rejected
                 /\ \A id \in Ids :
                       (closed /\ last'.op = "addDelete" /\ AddDelete(cls, id)) => rejected
      ]_vars

\* a Create record that supplies no id
IsCreateWithoutId(m) == m.type = CREATE /\ IdAttribute \notin DOMAIN m.payload

\* C11: when the records of an entity are two Creates without an id,
\* getNextState yields a branch that holds the current rows and two more,
\* under two different ids, both listed in idArray and both found by id.
C11_TwoCreatesGetDistinctIds ==
    \A cls \in ModelNames :
        LET M == MutationsOf(cls)
        IN  ( /\ last.op = "getNextState"
              /\ last.cls = cls
              /\ Len(M) = 2
              /\ \A i \in 1..2 : IsCreateWithoutId(M[i]) )
            => /\ ~Raised(last.ret)
               /\ LET b == last.ret.value
                      n == Len(b.idArray)
                  IN  /\ n >= 2
                      /\ b.idArray[n - 1] # b.idArray[n]
                      /\ \A k \in {n - 1, n} :
                            /\ b.idArray[k] \in DOMAIN b.itemsById
                            /\ b.itemsById[b.idArray[k]].name = M[k - n + 2].payload.name

\* C12: a.equals(b) is true exactly when a and b are of the same model
\* class and hold the same id, whatever their other fields hold; an
\* instance equals itself, and a.equals(b) is b.equals(a).
C12_EqualsIsClassAndId ==
    /\ last.op = "equals" =>
          LET a == facades[last.fid]
              b == facades[last.ret.value.other]
          IN  last.ret.value.equal <=> (a.cls = b.cls /\ a._fields.id = b._fields.id)
    /\ \A i \in FacadeIds, j \in FacadeIds :
          /\ equals(facades[i], facades[i])
          /\ equals(facades[i], facades[j]) <=> equals(facades[j], facades[i])

\* two instances of the same row with different snapshots were compared
C12_Witness ==
    /\ last.op = "equals"
    /\ last.fid = 1
    /\ last.ret.value.other = 2
    /\ last.ret.value.equal
    /\ facades[1]._fields.name # facades[2]._fields.name

\* the many-to-many fields among the declarations fs, in order
ManyToManyFields(fs) == SelectSeq(fs, LAMBDA fd : fd.instance.kind = "ManyToMany")

\* the model a field relates to, 'this' standing for the declaring model
RelatedTo(cls, fd) ==
    IF fd.instance.relatedModelName = "this" THEN cls ELSE fd.instance.relatedModelName

\* C13: getManyToManyModels on a model class returns one through model per
\* many-to-many field it declares and none for a field of another kind;
\* each through model has exactly two fields, both foreign keys, the "from"
\* one to the declaring model and the "to" one to the related model, which
\* is the declaring model itself for a field related to 'this'.
C13_OneThroughModelPerManyToMany ==
    last.op = "getManyToManyModels" =>
        LET cls == last.cls
            models == last.ret.value
            m2m == ManyToManyFields(fields[cls])
        IN  /\ Len(models) = Len(m2m)
            /\ \A k \in 1..Len(models) :
                  LET fs == models[k].fields
                      from == m2mFromFieldName(cls)
                      to == m2mToFieldName(RelatedTo(cls, m2m[k]))
                  IN  /\ Cardinality(DOMAIN fs) = 2
                      /\ DOMAIN fs = {from, to}
                      /\ fs[from] = ForeignKey(cls)
                      /\ fs[to] = ForeignKey(RelatedTo(cls, m2m[k]))

\* C14: a many-to-many field that names its through model gets no
\* synthesized through model: getManyToManyModels returns one through
\* model per many-to-many field that names none.
C14_ExplicitThroughIsReused ==
    last.op = "getManyToManyModels" =>
        Len(last.ret.value) =
            Len(SelectSeq(ManyToManyFields(fields[last.cls]),
                          LAMBDA fd : fd.instance.through = Undefined))

\* the many-to-many field i of cls gives its through model the name that
\* another many-to-many field, of cls or of another model class, gives
Collides(cls, i) ==
    /\ fields[cls][i].instance.kind = "ManyToMany"
    /\ \E c2 \in Classes :
          \E j \in 1..Len(fields[c2]) :
              /\ <<cls, i>> # <<c2, j>>
              /\ fields[c2][j].instance.kind = "ManyToMany"
              /\ m2mName(getName(cls), fields[cls][i].name)
                    = m2mName(getName(c2), fields[c2][j].name)

\* C15: getManyToManyModels raises SchemaError, and returns no through
\* models, when a many-to-many field of the model class gives its through
\* model the name another many-to-many field gives, of the same model class
\* or of another; the through models the model classes return have
\* different names.
C15_CollidingThroughNamesAreRejected ==
    last.op = "getManyToManyModels" =>
        /\ (\E i \in 1..Len(fields[last.cls]) : Collides(last.cls, i))
              => last.ret = Raise("SchemaError")
        /\ ~Raised(last.ret) =>
              \A c2 \in Classes :
                  \A i \in 1..Len(last.ret.value), j \in 1..Len(getManyToManyModels(c2)) :
                      last.ret.value[i].name = getManyToManyModels(c2)[j].name
                          => <<last.cls, i>> = <<c2, j>>

\* C16: connect(x) with an x that is no Session raises the error of connect
\* and leaves the session of the model class as it was; the session of a
\* model class is always a Session.
C16_ConnectRejectsNonSessions ==
    /\ [][\A cls \in ModelNames, x \in NonSessions :
             (last'.op = "connect" /\ Connect(cls, x))
                => (last'.ret = Raise(ConnectError) /\ _session' = _session)]_vars
    /\ [](\A cls \in ModelNames : _session[cls] \in Sessions)

\* C19: a write through a facade, by property assignment or by set/update,
\* appends one record to the log of the session its class is connected to
\* at that time, and to no other log.
C19_WritesLandInCurrentSession ==
    [][(last'.op \in {"assign", "set", "update"} /\ ~Raised(last'.ret)) =>
          \A s \in Sessions :
              Len(sessions'[s].mutations) =
                  Len(sessions[s].mutations) + (IF s = session(last'.cls) THEN 1 ELSE 0)]_vars

\* the records of M whose type the fold knows
KnownRecords(M) == SelectSeq(M, LAMBDA m : m.type \in {CREATE, UPDATE, DELETE})

\* C17: a record of a type other than CREATE, UPDATE and DELETE changes
\* nothing in the fold and does not stop it: on a defined current state
\* getNextState returns what the fold of the other records, in their
\* order, returns.
C17_UnknownTypeIsSkipped ==
    (last.op = "getNextState" /\ StateDefined(last.cls)) =>
        last.ret = LeftFold(state(last.cls).value, KnownRecords(MutationsOf(last.cls)))

\* an ORDER record followed by a Create that was applied
C17_Witness ==
    /\ last.op = "getNextState"
    /\ StateDefined(last.cls)
    /\ Len(MutationsOf(last.cls)) = 2
    /\ MutationsOf(last.cls)[1].type = ORDER
    /\ MutationsOf(last.cls)[2].type = CREATE
    /\ ~Raised(last.ret)
    /\ Len(last.ret.value.idArray) = Len(state(last.cls).value.idArray) + 1

\* C18: a record appended by the static addMutation carries the name of
\* the model class it was called on, whatever meta the caller had put on
\* it; a record appended by set or update of a facade is one more record
\* of the facade's own entity and of no other entity.
C18_RecordsCarryTheClassName ==
    [][\A cls \in ModelNames :
          /\ ( /\ last'.op \in {"addCreate", "addDelete"}
               /\ last'.cls = cls
               /\ ~Raised(last'.ret) )
             => LET s == session(cls)
                    n == Len(sessions'[s].mutations)
                IN  /\ n = Len(sessions[s].mutations) + 1
                    /\ sessions'[s].mutations[n].meta = [name |-> getName(cls)]
          /\ ( /\ last'.op \in {"set", "update"}
               /\ last'.cls = cls
               /\ ~Raised(last'.ret) )
             => \A other \in ModelNames :
                    Len(SessionGetMutationsFor(session(cls), other))' =
                        Len(SessionGetMutationsFor(session(cls), other))
                            + (IF other = getName(cls) THEN 1 ELSE 0)
      ]_vars

\* a record of Author followed by a record that update() of a Book facade
\* appended
C18_Witness ==
    /\ last.op = "update"
    /\ last.cls = "Book"
    /\ Len(MutationsOf("Author")) = 1
    /\ Len(MutationsOf("Book")) = 1
    /\ Log(session("Book"))[2].meta.name = "Book"

\* C20: getMetaInstance on a model class returns the Meta built from the
\* getMetaOptions of that class, whichever classes were asked before, and
\* getName returns the name of that Meta; the class keeps the instance.
C20_MetaIsTheClassesOwn ==
    /\ last.op = "getMetaInstance" =>
          /\ last.ret.value = NewMeta(getMetaOptions(last.cls))
          /\ getMetaInstance(last.cls) = last.ret.value
    /\ last.op = "getName" => last.ret.value = getMetaOptions(last.cls).name

=============================================================================
